---- MODULE Spec2Model ----
(***************************************************************************)
(* Model of sapio's contract declaration macros                            *)
(* (sapio/src/contract/macros.rs): the macro expansions declare!, then!,   *)
(* web_api!, finish!, guard! and compile_if! as pure operators over the    *)
(* author's macro invocations, the build of the impl that holds them, and  *)
(* the process-wide schema cache SCHEMA_MAP with get_schema_for as a       *)
(* lock-protected state machine run by several threads of the consuming    *)
(* compiler.  An invocation the macros or the compiler reject expands to   *)
(* no items: the impl does not build and nothing of it ever runs.          *)
(***************************************************************************)
EXTENDS Naturals, Sequences, FiniteSets, TLC

\* Number of threads of the consuming compiler that use the contract.
NThreads == 2

\* Longest list the author passes to declare!.
MaxDeclare == 2

Threads == 1..NThreads

\* The mutex is held by no thread.
NoThread == 0

\* TypeId::of::<T>() of the argument types the model uses.
TypeIds == {"T1", "T2"}

VARIABLES
    contract,         \* the author's macro invocations inside one impl block
    build,            \* "source", then "built" or "rejected" by the compiler
    THEN_FNS,         \* const THEN_FNS of the impl
    FINISH_FNS,       \* const FINISH_FNS of the impl
    FINISH_OR_FUNCS,  \* const FINISH_OR_FUNCS of the impl
    SCHEMA_MAP,       \* the HashMap<TypeId, Arc<RootSchema>> inside the Mutex
    mutex,            \* the thread holding SCHEMA_MAP's MutexGuard, or NoThread
    arcs,             \* number of Arc<RootSchema> allocations made so far
    schema_for_runs,  \* per TypeId, how often schemars::schema_for!(T) has run
    pc,               \* per thread, its position
    op,               \* per thread, the call it is making or made last
    res,              \* per thread, what its last call returned
    aborted           \* the process has been terminated by a panic

vars == <<contract, build, THEN_FNS, FINISH_FNS, FINISH_OR_FUNCS, SCHEMA_MAP, mutex,
          arcs, schema_for_runs, pc, op, res, aborted>>

registry == <<contract, build, THEN_FNS, FINISH_FNS, FINISH_OR_FUNCS>>
cache == <<SCHEMA_MAP, mutex, arcs, schema_for_runs>>

(***************************************************************************)
(* Option<T>                                                               *)
(***************************************************************************)
None == [tag |-> "None"]
Some(x) == [tag |-> "Some", val |-> x]
IsSome(o) == o.tag = "Some"

(***************************************************************************)
(* The author's macro invocations.  An optional part of an invocation      *)
(* (compile_if: [..], guarded_by: [..], web{}, cached, the fn block) is    *)
(* either written or left out; a list that is left out is recorded as      *)
(* not given.                                                              *)
(***************************************************************************)
Omitted == [given |-> FALSE, list |-> <<>>]
Given(l) == [given |-> TRUE, list |-> l]

\* The guard lists and compile_if lists an author writes (names of factories).
GuardLists == {<<>>, <<"g1">>, <<"g1", "g2">>}
CompileIfLists == {<<>>, <<"c1">>}

\* then!{ [compile_if: l] [guarded_by: l] fn name(self, ctx) {..} } or then!{name}
ThenInvocations(n) ==
    {[name |-> n, block |-> FALSE, compile_if |-> Omitted, guarded_by |-> Omitted]}
    \cup
    [name : {n}, block : {TRUE},
     compile_if : {Omitted} \cup {Given(l) : l \in CompileIfLists},
     guarded_by : {Omitted} \cup {Given(l) : l \in GuardLists}]

\* finish!{ [web{}] [compile_if: l] guarded_by: l coerce_args: f fn name(self, ctx, o: T) {..} }
\* or finish!{ [web{}] name<T> }
FinishInvocations(n) ==
    [name : {n}, web : BOOLEAN, arg_type : TypeIds, block : {FALSE},
     compile_if : {Omitted}, guarded_by : {Omitted}, coerce_args : {"none"}]
    \cup
    [name : {n}, web : BOOLEAN, arg_type : TypeIds, block : {TRUE},
     compile_if : {Omitted} \cup {Given(l) : l \in CompileIfLists},
     guarded_by : {Given(l) : l \in GuardLists},
     coerce_args : {"default_coerce"}]

\* guard!{ [cached] fn name(self, ctx) {..} } or guard!{name}
GuardInvocations(n) ==
    {[name |-> n, block |-> FALSE, cached |-> FALSE]}
    \cup [name : {n}, block : {TRUE}, cached : BOOLEAN]

\* compile_if!{ fn name(self, ctx) {..} } or compile_if!{name}
CompileIfInvocations(n) == [name : {n}, block : BOOLEAN]

(***************************************************************************)
(* Macro expansion.  Every arm generates one method (the body) and one     *)
(* factory; a method's body is the author's block or unimplemented!().     *)
(***************************************************************************)
Unimplemented == "unimplemented!()"
AuthorBlock == "$b"

\* The invocation is a compile error: no item is generated.
Rejected(err) == [compiles |-> FALSE, error |-> err]

\* paste!'s [<PREFIX $name>]
Paste(prefix, n) == prefix \o n

\* then!, arm 1 (null implementation)
then_null(i) ==
    [compiles |-> TRUE, method |-> Paste("THEN_", i.name), body |-> Unimplemented,
     factory |-> None]

\* then!, arm 2 (compile_if and guarded_by both given)
then_full(i) ==
    [compiles |-> TRUE, method |-> Paste("THEN_", i.name), body |-> AuthorBlock,
     factory |-> Some([guard |-> i.guarded_by.list,
                       conditional_compile_if |-> i.compile_if.list,
                       func |-> Paste("THEN_", i.name)])]

\* Mutant of then: arm 5 passes its compile_if list on as the guard list too.
then_Arm5CopiesList(i) ==
    IF ~i.block THEN then_null(i)
    ELSE IF i.compile_if.given /\ i.guarded_by.given THEN then_full(i)
    ELSE IF ~i.compile_if.given /\ ~i.guarded_by.given
        THEN then_full([i EXCEPT !.compile_if = Given(<<>>), !.guarded_by = Given(<<>>)])
    ELSE IF i.guarded_by.given
        THEN then_full([i EXCEPT !.compile_if = Given(<<>>)])
    ELSE then_full([i EXCEPT !.guarded_by = i.compile_if])

\* then!, arms 3, 4 and 5 re-invoke then! with the missing lists as []
then(i) ==
    IF ~i.block THEN then_null(i)
    ELSE IF i.compile_if.given /\ i.guarded_by.given THEN then_full(i)
    ELSE IF ~i.compile_if.given /\ ~i.guarded_by.given
        THEN then_full([i EXCEPT !.compile_if = Given(<<>>), !.guarded_by = Given(<<>>)])
    ELSE IF i.guarded_by.given
        THEN then_full([i EXCEPT !.compile_if = Given(<<>>)])
    ELSE then_full([i EXCEPT !.guarded_by = Given(<<>>)])

\* web_api!: the const FINISH_API_FOR_name.  Arm 2 makes it None.  Arm 1
\* (web{}) initialises it with Some(get_schema_for::<$type>()), a call of a
\* non-const fn in a const item, which the compiler rejects.
web_api(i) ==
    IF i.web
    THEN Rejected("E0015: cannot call non-const fn get_schema_for in constants")
    ELSE [compiles |-> TRUE, const |-> None]

\* finish!, arm 1 (null implementation).  Its matcher has the optional
\* $(web$web_enable:block)? directly before $name:ident, so on the token web
\* it is rejected with a local ambiguity and web_api! is never expanded.
finish_null(i) ==
    IF i.web
    THEN Rejected("local ambiguity when calling macro finish: ident ('name') or 1 other option")
    ELSE [compiles |-> TRUE, method |-> Paste("FINISH_", i.name),
          body |-> Unimplemented, api |-> web_api(i).const, factory |-> None]

\* finish!, arm 2: the FinishOrFunc literal the factory builds; schema is the
\* value of the const FINISH_API_FOR_name.
FinishOrFunc(i, schema) ==
    [coerce_args |-> i.coerce_args,
     guard |-> i.guarded_by.list,
     conditional_compile_if |-> i.compile_if.list,
     func |-> Paste("FINISH_", i.name),
     schema |-> schema,
     name |-> i.name]

finish_full(i) ==
    IF ~web_api(i).compiles THEN web_api(i)
    ELSE [compiles |-> TRUE, method |-> Paste("FINISH_", i.name),
          body |-> AuthorBlock, api |-> web_api(i).const,
          factory |-> Some(FinishOrFunc(i, web_api(i).const))]

\* finish!: arm 1 is tried first, and on an invocation that begins with web
\* its matcher's ambiguity is an error (the later arms are not tried).
\* Arm 3 re-invokes finish! with compile_if: [].
finish(i) ==
    IF i.web THEN finish_null(i)
    ELSE IF ~i.block THEN finish_null(i)
    ELSE IF i.compile_if.given THEN finish_full(i)
    ELSE finish_full([i EXCEPT !.compile_if = Given(<<>>)])

\* Mutant of guard_null: the null arm's factory returns the stub as a guard.
guard_null_Present(i) ==
    [compiles |-> TRUE, method |-> Paste("GUARD_", i.name), body |-> Unimplemented,
     factory |-> Some([tag |-> "Fresh", func |-> Paste("GUARD_", i.name)])]

\* guard!, arms 1 (null), 2 (Fresh) and 3 (cached)
guard_null(i) ==
    [compiles |-> TRUE, method |-> Paste("GUARD_", i.name), body |-> Unimplemented, factory |-> None]

guard_fresh(i) ==
    [compiles |-> TRUE, method |-> Paste("GUARD_", i.name), body |-> AuthorBlock,
     factory |-> Some([tag |-> "Fresh", func |-> Paste("GUARD_", i.name)])]

\* Mutant of guard_cached: the cached arm tags the guard Fresh.
guard_cached_AsFresh(i) == guard_fresh(i)

guard_cached(i) ==
    [compiles |-> TRUE, method |-> Paste("GUARD_", i.name), body |-> AuthorBlock,
     factory |-> Some([tag |-> "Cache", func |-> Paste("GUARD_", i.name)])]

guard(i) ==
    IF ~i.block THEN guard_null(i)
    ELSE IF i.cached THEN guard_cached(i)
    ELSE guard_fresh(i)

\* compile_if!, arms 1 (null) and 2
compile_if_null(i) ==
    [compiles |-> TRUE, method |-> Paste("COMPILE_IF", i.name), body |-> Unimplemented, factory |-> None]

compile_if_fresh(i) ==
    [compiles |-> TRUE, method |-> Paste("COMPILE_IF", i.name), body |-> AuthorBlock,
     factory |-> Some([tag |-> "Fresh", func |-> Paste("COMPILE_IF", i.name)])]

compile_if(i) ==
    IF ~i.block THEN compile_if_null(i) ELSE compile_if_fresh(i)

\* Mutant of declare: the list is built back to front.
declare_Reversed(args) == [k \in 1..Len(args) |-> args[Len(args) + 1 - k]]

\* declare!{then, a...}, declare!{finish, a...}, declare!{updatable<X>, a...}:
\* the list &[$($a,)*] of the factories the author names.
declare(args) == [k \in 1..Len(args) |-> args[k]]

(***************************************************************************)
(* One contract type: the macro invocations of its impl block.  The model  *)
(* gives it one then! pathway a, one finish! pathway f, guards g1 and g2   *)
(* and one compile_if! gate c1.                                            *)
(***************************************************************************)
FactoryNames == {"a", "f", "g1", "g2", "c1"}
RegistryNames == {"THEN_FNS", "FINISH_FNS", "FINISH_OR_FUNCS"}

\* What the macro invoked for name n expands to.
Expansion(c, n) ==
    CASE n = "a" -> then(c.a)
      [] n = "f" -> finish(c.f)
      [] n = "g1" -> guard(c.g1)
      [] n = "g2" -> guard(c.g2)
      [] n = "c1" -> compile_if(c.c1)

\* Sequences over S of length at most n.
SeqUpTo(S, n) == UNION {[1..k -> S] : k \in 0..n}

\* The impl builds when every macro invocation in it expands.
Builds(c) == \A n \in FactoryNames : Expansion(c, n).compiles

\* A contract with every pathway implemented, or every pathway in null form.
Contract(implemented) ==
    [a |-> [name |-> "a", block |-> implemented, compile_if |-> Omitted,
            guarded_by |-> IF implemented THEN Given(<<"g1">>) ELSE Omitted],
     f |-> [name |-> "f", web |-> FALSE, arg_type |-> "T1", block |-> implemented,
            compile_if |-> IF implemented THEN Given(<<"c1">>) ELSE Omitted,
            guarded_by |-> IF implemented THEN Given(<<"g1", "g2">>) ELSE Omitted,
            coerce_args |-> IF implemented THEN "default_coerce" ELSE "none"],
     g1 |-> [name |-> "g1", block |-> implemented, cached |-> FALSE],
     g2 |-> [name |-> "g2", block |-> implemented, cached |-> implemented],
     c1 |-> [name |-> "c1", block |-> implemented],
     declare_then |-> <<"a">>,
     declare_finish |-> <<"g1", "g2">>,
     declare_updatable |-> <<"f">>]

\* The contracts the threads of Spec work on.
Contracts == {Contract(i) : i \in BOOLEAN}

\* Every form of every macro an author may write, one macro varied at a time
\* around a contract that implements everything.
DeclContracts ==
    LET d == Contract(TRUE) IN
    {[d EXCEPT !.a = i] : i \in ThenInvocations("a")}
    \cup {[d EXCEPT !.f = i] : i \in FinishInvocations("f")}
    \cup {[d EXCEPT !.g1 = i] : i \in GuardInvocations("g1")}
    \cup {[d EXCEPT !.g2 = i] : i \in GuardInvocations("g2")}
    \cup {[d EXCEPT !.c1 = i] : i \in CompileIfInvocations("c1")}
    \cup {[d EXCEPT !.declare_then = l] : l \in SeqUpTo({"a"}, MaxDeclare)}
    \cup {[d EXCEPT !.declare_finish = l] : l \in SeqUpTo({"g1", "g2"}, MaxDeclare)}
    \cup {[d EXCEPT !.declare_updatable = l] : l \in SeqUpTo({"f"}, MaxDeclare)}

(***************************************************************************)
(* Thread state                                                            *)
(***************************************************************************)
NoOp == [kind |-> "none", name |-> "-", ty |-> "-"]
NoRes == [kind |-> "none"]

\* The impl as written, before it is compiled.
InitWith(c) ==
    /\ contract = c
    /\ build = "source"
    /\ THEN_FNS = declare(c.declare_then)
    /\ FINISH_FNS = declare(c.declare_finish)
    /\ FINISH_OR_FUNCS = declare(c.declare_updatable)
    /\ SCHEMA_MAP = [k \in {} |-> None]
    /\ mutex = NoThread
    /\ arcs = 0
    /\ schema_for_runs = [T \in TypeIds |-> 0]
    /\ pc = [t \in Threads |-> "ready"]
    /\ op = [t \in Threads |-> NoOp]
    /\ res = [t \in Threads |-> NoRes]
    /\ aborted = FALSE

Init == \E c \in Contracts : InitWith(c)

\* The compiler expands the macros of the impl: it builds or is rejected.
Compile ==
    /\ build = "source"
    /\ build' = IF Builds(contract) THEN "built" ELSE "rejected"
    /\ UNCHANGED <<contract, THEN_FNS, FINISH_FNS, FINISH_OR_FUNCS, cache,
                   pc, op, res, aborted>>

\* The program exists and has not been terminated.
Running == build = "built" /\ ~aborted

DeclInit == \E c \in DeclContracts : InitWith(c)

(***************************************************************************)
(* get_schema_for::<T>()                                                   *)
(*   SCHEMA_MAP.lock().unwrap().entry(TypeId::of::<T>())                   *)
(*       .or_insert_with(|| Arc::new(schemars::schema_for!(T))).clone()    *)
(***************************************************************************)
\* schemars::schema_for!(T)
schema_for(T) == <<"RootSchema", T>>

\* A direct call of get_schema_for::<T>() begins.
CallGetSchema(t, T) ==
    /\ Running
    /\ pc[t] = "ready"
    /\ pc' = [pc EXCEPT ![t] = "lock"]
    /\ op' = [op EXCEPT ![t] = [kind |-> "get_schema_for", name |-> "-", ty |-> T]]
    /\ res' = [res EXCEPT ![t] = NoRes]
    /\ UNCHANGED <<registry, cache, aborted>>

\* Mutant of Lock: the map is entered without waiting for the mutex.
Lock_NoExclusion(t) ==
    /\ Running
    /\ pc[t] = "lock"
    /\ mutex' = t
    /\ pc' = [pc EXCEPT ![t] = "entry"]
    /\ UNCHANGED <<registry, SCHEMA_MAP, arcs, schema_for_runs, op, res, aborted>>

\* .lock().unwrap(): blocks until the mutex is free, then holds it.
Lock(t) ==
    /\ Running
    /\ pc[t] = "lock"
    /\ mutex = NoThread
    /\ mutex' = t
    /\ pc' = [pc EXCEPT ![t] = "entry"]
    /\ UNCHANGED <<registry, SCHEMA_MAP, arcs, schema_for_runs, op, res, aborted>>

\* Mutant of Entry: the entry is taken for Vacant without looking
\* (insert instead of entry().or_insert_with()).
Entry_AlwaysVacant(t) ==
    /\ Running
    /\ pc[t] = "entry"
    /\ pc' = [pc EXCEPT ![t] = "or_insert_with"]
    /\ UNCHANGED <<registry, cache, op, res, aborted>>

\* .entry(TypeId::of::<T>()): Occupied or Vacant
Entry(t) ==
    /\ Running
    /\ pc[t] = "entry"
    /\ pc' = [pc EXCEPT ![t] =
                IF op[t].ty \in DOMAIN SCHEMA_MAP THEN "clone" ELSE "or_insert_with"]
    /\ UNCHANGED <<registry, cache, op, res, aborted>>

\* .or_insert_with(|| Arc::new(schema_for!(T))) on a Vacant entry
OrInsertWith(t) ==
    /\ Running
    /\ pc[t] = "or_insert_with"
    /\ LET T == op[t].ty
           h == [ptr |-> arcs + 1, schema |-> schema_for(T)]
       IN /\ schema_for_runs' = [schema_for_runs EXCEPT ![T] = @ + 1]
          /\ arcs' = arcs + 1
          /\ SCHEMA_MAP' = [k \in DOMAIN SCHEMA_MAP \cup {T} |->
                              IF k = T THEN h ELSE SCHEMA_MAP[k]]
    /\ pc' = [pc EXCEPT ![t] = "clone"]
    /\ UNCHANGED <<registry, mutex, op, res, aborted>>

\* Mutant of Clone: the MutexGuard is leaked, so the mutex stays locked.
Clone_KeepsLock(t) ==
    /\ Running
    /\ pc[t] = "clone"
    /\ res' = [res EXCEPT ![t] = [kind |-> "schema", val |-> SCHEMA_MAP[op[t].ty]]]
    /\ pc' = [pc EXCEPT ![t] = "ready"]
    /\ UNCHANGED <<registry, cache, op, aborted>>

\* .clone(), the MutexGuard is dropped and the call returns.
Clone(t) ==
    /\ Running
    /\ pc[t] = "clone"
    /\ res' = [res EXCEPT ![t] = [kind |-> "schema", val |-> SCHEMA_MAP[op[t].ty]]]
    /\ mutex' = NoThread
    /\ pc' = [pc EXCEPT ![t] = "ready"]
    /\ UNCHANGED <<registry, SCHEMA_MAP, arcs, schema_for_runs, op, aborted>>

(***************************************************************************)
(* The factories fn $name() and the generated methods                      *)
(***************************************************************************)
\* Mutant of CallFactory: the factory of a finish! pathway stores a new
\* schema for its argument type in the cache, whatever the cache holds.
CallFactory_StoresSchema(t, n) ==
    /\ Running
    /\ pc[t] = "ready"
    /\ op' = [op EXCEPT ![t] = [kind |-> "factory", name |-> n, ty |-> "-"]]
    /\ res' = [res EXCEPT ![t] =
                 [kind |-> "factory", val |-> Expansion(contract, n).factory]]
    /\ IF n = "f"
       THEN LET T == contract.f.arg_type
                h == [ptr |-> arcs + 1, schema |-> <<"RootSchema", T>>]
            IN /\ arcs' = arcs + 1
               /\ SCHEMA_MAP' = [k \in DOMAIN SCHEMA_MAP \cup {T} |->
                                   IF k = T THEN h ELSE SCHEMA_MAP[k]]
               /\ UNCHANGED <<mutex, schema_for_runs>>
       ELSE UNCHANGED cache
    /\ UNCHANGED <<registry, pc, aborted>>

\* Self::$name() is called: it returns None or Some(the declaration) and
\* calls nothing.
CallFactory(t, n) ==
    /\ Running
    /\ pc[t] = "ready"
    /\ op' = [op EXCEPT ![t] = [kind |-> "factory", name |-> n, ty |-> "-"]]
    /\ res' = [res EXCEPT ![t] =
                 [kind |-> "factory", val |-> Expansion(contract, n).factory]]
    /\ UNCHANGED <<registry, cache, pc, aborted>>

\* Self::THEN_FNS, Self::FINISH_FNS or Self::FINISH_OR_FUNCS is read.
ReadRegistry(t, r) ==
    /\ Running
    /\ pc[t] = "ready"
    /\ op' = [op EXCEPT ![t] = [kind |-> "registry", name |-> r, ty |-> "-"]]
    /\ res' = [res EXCEPT ![t] =
                 [kind |-> "registry",
                  val |-> CASE r = "THEN_FNS" -> THEN_FNS
                            [] r = "FINISH_FNS" -> FINISH_FNS
                            [] r = "FINISH_OR_FUNCS" -> FINISH_OR_FUNCS]]
    /\ UNCHANGED <<registry, cache, pc, aborted>>

\* The method generated for name n is called and its body is the author's block.
InvokeBody(t, n) ==
    /\ Running
    /\ pc[t] = "ready"
    /\ Expansion(contract, n).body = AuthorBlock
    /\ op' = [op EXCEPT ![t] = [kind |-> "body", name |-> n, ty |-> "-"]]
    /\ res' = [res EXCEPT ![t] = [kind |-> "body", val |-> AuthorBlock]]
    /\ UNCHANGED <<registry, cache, pc, aborted>>

\* Mutant of InvokeUnimplemented: the stub returns a default value.
InvokeUnimplemented_Returns(t, n) ==
    /\ Running
    /\ pc[t] = "ready"
    /\ Expansion(contract, n).body = Unimplemented
    /\ op' = [op EXCEPT ![t] = [kind |-> "body", name |-> n, ty |-> "-"]]
    /\ res' = [res EXCEPT ![t] = [kind |-> "body", val |-> Unimplemented]]
    /\ UNCHANGED <<registry, cache, pc, aborted>>

\* What becomes of a panic in thread code: the process is terminated (the
\* build aborts on panic, or the panic is in the main thread), the thread
\* unwinds to its end, or the caller catches the unwind (catch_unwind) and
\* goes on in the same thread.
PanicOutcomes == {"abort", "unwind", "caught"}

\* The payload of the panic of unimplemented!()
PanicPayload == "not implemented"

\* The method generated for name n is called and its body is unimplemented!():
\* the call panics and yields no value of the body.
InvokeUnimplemented(t, n) ==
    /\ Running
    /\ pc[t] = "ready"
    /\ Expansion(contract, n).body = Unimplemented
    /\ op' = [op EXCEPT ![t] = [kind |-> "body", name |-> n, ty |-> "-"]]
    /\ \E outcome \in PanicOutcomes :
          /\ res' = [res EXCEPT ![t] =
                       IF outcome = "caught"
                       THEN [kind |-> "panic", val |-> PanicPayload]
                       ELSE NoRes]
          /\ pc' = [pc EXCEPT ![t] = IF outcome = "caught" THEN "ready" ELSE "panicked"]
          /\ aborted' = (outcome = "abort")
    /\ UNCHANGED <<registry, cache>>

(***************************************************************************)
(* Specifications                                                          *)
(***************************************************************************)
Step(t) ==
    \/ \E T \in TypeIds : CallGetSchema(t, T)
    \/ Lock(t)
    \/ Entry(t)
    \/ OrInsertWith(t)
    \/ Clone(t)
    \/ \E n \in FactoryNames : CallFactory(t, n)
    \/ \E r \in RegistryNames : ReadRegistry(t, r)
    \/ \E n \in FactoryNames : InvokeBody(t, n)
    \/ \E n \in FactoryNames : InvokeUnimplemented(t, n)

Next == Compile \/ \E t \in Threads : Step(t)

\* Several compiler threads use one contract type concurrently.
Spec == Init /\ [][Next]_vars

\* One thread uses a contract type; the contract ranges over every form of
\* every macro.
DeclNext == Compile \/ Step(1)

DeclSpec == DeclInit /\ [][DeclNext]_vars

\* Callers of get_schema_for only.
CacheStep(t) ==
    \/ \E T \in TypeIds : CallGetSchema(t, T)
    \/ Lock(t)
    \/ Entry(t)
    \/ OrInsertWith(t)
    \/ Clone(t)

CacheNext == Compile \/ \E t \in Threads : CacheStep(t)

FairInit == InitWith(Contract(TRUE))

\* Fair scheduling of threads: a thread that can take its next step for good
\* takes it.  A waiter acquires the mutex if the mutex stays free; the mutex
\* promises no order among the threads that compete for it.
Fairness ==
    /\ WF_vars(Compile)
    /\ \A t \in Threads :
        /\ WF_vars(Lock(t))
        /\ WF_vars(Entry(t))
        /\ WF_vars(OrInsertWith(t))
        /\ WF_vars(Clone(t))

FairSpec == FairInit /\ [][CacheNext]_vars /\ Fairness

(***************************************************************************)
(* Properties                                                              *)
(***************************************************************************)
InCriticalSection == {"entry", "or_insert_with", "clone"}
InGetSchemaFor == {"lock"} \cup InCriticalSection

\* Thread t's last call was get_schema_for and has returned its handle.
HasHandle(t) ==
    /\ pc[t] = "ready"
    /\ res[t].kind = "schema"

HandleOf(t) == res[t].val

\* C1: for every type identity the schema-generation routine has run at most
\* once, and exactly once as soon as any caller has its handle; all callers
\* of get_schema_for for one type hold the same Arc; and whoever looks up,
\* computes or inserts holds the one cache lock.
C1_ExactlyOnceSharedInstance ==
    /\ \A T \in TypeIds : schema_for_runs[T] <= 1
    /\ \A t \in Threads :
          HasHandle(t) =>
             /\ schema_for_runs[op[t].ty] = 1
             /\ HandleOf(t).schema = schema_for(op[t].ty)
    /\ \A t, u \in Threads :
          (HasHandle(t) /\ HasHandle(u) /\ op[t].ty = op[u].ty)
             => HandleOf(t).ptr = HandleOf(u).ptr
    /\ \A t \in Threads : pc[t] \in InCriticalSection => mutex = t

\* Two callers hold a handle for the same type, after one generation.
C1_Witness ==
    \E t, u \in Threads :
        /\ t # u
        /\ HasHandle(t) /\ HasHandle(u)
        /\ op[t].ty = op[u].ty
        /\ schema_for_runs[op[t].ty] = 1

\* C2: an entry of the cache, once inserted, is never removed or replaced and
\* its schema is not generated again; a step changes the entry of the type
\* the lock holder asked for and of no other type; and a handle a call has
\* returned is the entry of the cache.
C2_InsertOnce ==
    /\ [](\A t \in Threads :
            HasHandle(t) =>
               /\ op[t].ty \in DOMAIN SCHEMA_MAP
               /\ HandleOf(t) = SCHEMA_MAP[op[t].ty])
    /\ [][/\ \A T \in DOMAIN SCHEMA_MAP :
               /\ T \in DOMAIN SCHEMA_MAP'
               /\ SCHEMA_MAP'[T] = SCHEMA_MAP[T]
               /\ schema_for_runs'[T] = schema_for_runs[T]
          /\ \A T \in DOMAIN SCHEMA_MAP' \ DOMAIN SCHEMA_MAP :
               /\ mutex # NoThread
               /\ op[mutex].ty = T
               /\ DOMAIN SCHEMA_MAP' = DOMAIN SCHEMA_MAP \cup {T}]_vars

\* Both types are cached and a caller got the existing entry of one of them
\* while the other type's entry is there too.
C2_Witness ==
    /\ DOMAIN SCHEMA_MAP = TypeIds
    /\ \E t, u \in Threads :
          /\ t # u
          /\ HasHandle(t) /\ HasHandle(u)
          /\ op[t].ty # op[u].ty

\* The mutex is held exactly by the thread inside the critical section.
LockDiscipline ==
    /\ \A t \in Threads : pc[t] \in InCriticalSection <=> mutex = t
    /\ (mutex = NoThread) <=> (\A t \in Threads : pc[t] \notin InCriticalSection)

\* C10 as stated: under fair scheduling every call of get_schema_for that
\* has begun acquires the mutex and returns with a handle, and the mutex is
\* free whenever no caller is inside the lookup-or-insert.
C10_EveryCallReturns ==
    /\ []LockDiscipline
    /\ \A t \in Threads : (pc[t] = "lock") ~> HasHandle(t)

\* Thread t waits for the mutex and other threads take it again and again.
Overtaken(t) == []<>(\E u \in Threads \ {t} : mutex = u)

\* C10 as amended: the mutex is held exactly while a caller is inside the
\* lookup-or-insert; under fair scheduling every caller that holds the mutex
\* returns with a handle and releases it; while a caller waits, some caller
\* gets the mutex (no deadlock); and a caller that has begun returns with a
\* handle unless other callers take the mutex ahead of it for ever.
C10_DeadlockFree ==
    /\ []LockDiscipline
    /\ \A t \in Threads : (mutex = t) ~> (HasHandle(t) /\ mutex # t)
    /\ (\E t \in Threads : pc[t] = "lock") ~> (mutex # NoThread)
    /\ \A t \in Threads : Overtaken(t) \/ ((pc[t] = "lock") ~> HasHandle(t))

\* A caller waits for the mutex while another caller holds it, after
\* earlier calls have filled the cache.
C10_Witness ==
    \E t, u \in Threads :
        /\ t # u
        /\ pc[t] = "lock"
        /\ mutex = u
        /\ pc[u] = "clone"
        /\ DOMAIN SCHEMA_MAP = TypeIds

\* Thread t's last call was the factory of name n and has returned.
FactoryReturned(t, n) ==
    /\ pc[t] = "ready"
    /\ op[t].kind = "factory"
    /\ op[t].name = n
    /\ res[t].kind = "factory"

\* The body of the method called m in the impl.
BodyOfMethod(m) ==
    LET n == CHOOSE x \in FactoryNames : Expansion(contract, x).method = m
    IN Expansion(contract, n).body

\* C3: for every flavor, the factory of a name declared in the null form
\* returns None, and a factory that returns Some(..) belongs to a name
\* declared with a block and hands out a func whose body is that block,
\* never the unimplemented!() stub.
C3_AbsencePropagation ==
    \A t \in Threads : \A n \in FactoryNames :
        FactoryReturned(t, n) =>
           /\ ~contract[n].block => res[t].val = None
           /\ IsSome(res[t].val) =>
                 /\ contract[n].block
                 /\ \E x \in FactoryNames :
                       Expansion(contract, x).method = res[t].val.val.func
                 /\ BodyOfMethod(res[t].val.val.func) = AuthorBlock

\* The factory of a null-form guard has been called and returned None.
C3_Witness ==
    \E t \in Threads :
        /\ FactoryReturned(t, "g1")
        /\ ~contract.g1.block
        /\ res[t].val = None

\* C4: each registry list is the list of factories the author gave to
\* declare!, in that order and of that length; every read of a list returns
\* it; and no step (factory call, schema lookup, body call) changes a list.
C4_RegistryOrder ==
    /\ [](/\ THEN_FNS = contract.declare_then
          /\ FINISH_FNS = contract.declare_finish
          /\ FINISH_OR_FUNCS = contract.declare_updatable
          /\ \A t \in Threads :
                res[t].kind = "registry" =>
                   res[t].val = CASE op[t].name = "THEN_FNS" -> contract.declare_then
                                  [] op[t].name = "FINISH_FNS" -> contract.declare_finish
                                  [] op[t].name = "FINISH_OR_FUNCS" -> contract.declare_updatable)
    /\ [][UNCHANGED <<THEN_FNS, FINISH_FNS, FINISH_OR_FUNCS>>]_vars

\* A list of two different factories has been read after a schema lookup.
C4_Witness ==
    \E t \in Threads :
        /\ res[t].kind = "registry"
        /\ op[t].name = "FINISH_FNS"
        /\ res[t].val = <<"g2", "g1">>
        /\ DOMAIN SCHEMA_MAP # {}

\* C5: a then! pathway declared with a block is present, and a guard or
\* compile_if list it leaves out is the empty list; a finish! pathway
\* declared with a block and no compile_if has the empty compile_if list.
\* A list that is written is the list of the declaration.
C5_OmittedListsAreEmpty ==
    \A t \in Threads :
        /\ (FactoryReturned(t, "a") /\ contract.a.block) =>
              /\ IsSome(res[t].val)
              /\ res[t].val.val.guard =
                    IF contract.a.guarded_by.given THEN contract.a.guarded_by.list ELSE <<>>
              /\ res[t].val.val.conditional_compile_if =
                    IF contract.a.compile_if.given THEN contract.a.compile_if.list ELSE <<>>
        /\ (FactoryReturned(t, "f") /\ contract.f.block) =>
              /\ IsSome(res[t].val)
              /\ res[t].val.val.guard = contract.f.guarded_by.list
              /\ res[t].val.val.conditional_compile_if =
                    IF contract.f.compile_if.given THEN contract.f.compile_if.list ELSE <<>>

\* The factory of a then! pathway declared with compile_if only has returned.
C5_Witness ==
    \E t \in Threads :
        /\ FactoryReturned(t, "a")
        /\ contract.a.block
        /\ contract.a.compile_if = Given(<<"c1">>)
        /\ ~contract.a.guarded_by.given
        /\ res[t].val.val.guard = <<>>

\* C6: the factory of a guard declared with a block returns the guard
\* tagged Fresh without the cached keyword and tagged Cache with it, the
\* factory of a compile_if declared with a block returns it tagged Fresh,
\* each naming the method generated for it; and calling a body stores
\* nothing: it changes neither the registry nor the cache nor what another
\* thread holds.
C6_CachingPolicyTag ==
    /\ [](\A t \in Threads :
            /\ \A n \in {"g1", "g2"} :
                  (FactoryReturned(t, n) /\ contract[n].block) =>
                     res[t].val = Some([tag |-> IF contract[n].cached THEN "Cache" ELSE "Fresh",
                                        func |-> "GUARD_" \o n])
            /\ (FactoryReturned(t, "c1") /\ contract.c1.block) =>
                  res[t].val = Some([tag |-> "Fresh", func |-> "COMPILE_IFc1"]))
    /\ [][\A t \in Threads :
            (op'[t].kind = "body" /\ <<op[t], res[t]>> # <<op'[t], res'[t]>>) =>
               /\ UNCHANGED <<registry, cache>>
               /\ \A u \in Threads \ {t} :
                     <<pc[u], op[u], res[u]>> = <<pc'[u], op'[u], res'[u]>>]_vars

\* The factory of a guard declared with cached has returned it tagged Cache.
C6_Witness ==
    \E t \in Threads :
        /\ FactoryReturned(t, "g1")
        /\ contract.g1.block /\ contract.g1.cached
        /\ res[t].val = Some([tag |-> "Cache", func |-> "GUARD_g1"])

\* C7: a finish! pathway declared with a block has a declaration whether or
\* not the author writes web{} (the impl builds), and its factory returns a
\* FinishOrFunc carrying the declaration's func, guards, compile_if list,
\* coerce_args and name, whose schema is Some(entry of the cache for the
\* argument type) when the declaration has web{} and None when it has not;
\* the factory of a pathway without web{} (or without a block) returns at
\* once and leaves the cache and its mutex as they were.
C7_SchemaIffWeb ==
  /\ []((build # "source" /\ contract.f.block) =>
          /\ build = "built"
          /\ IsSome(Expansion(contract, "f").factory)
          /\ IsSome(Expansion(contract, "f").factory.val.schema) <=> contract.f.web)
  /\ [](\A t \in Threads :
          (FactoryReturned(t, "f") /\ contract.f.block) =>
              /\ IsSome(res[t].val)
              /\ LET d == res[t].val.val IN
                    /\ IsSome(d.schema) <=> contract.f.web
                    /\ contract.f.web =>
                          /\ contract.f.arg_type \in DOMAIN SCHEMA_MAP
                          /\ d.schema.val = SCHEMA_MAP[contract.f.arg_type]
                          /\ d.schema.val.schema = schema_for(contract.f.arg_type)
                    /\ d.func = "FINISH_f"
                    /\ d.name = "f"
                    /\ d.coerce_args = contract.f.coerce_args
                    /\ d.guard = contract.f.guarded_by.list
                    /\ d.conditional_compile_if =
                          IF contract.f.compile_if.given
                          THEN contract.f.compile_if.list ELSE <<>>)
  /\ [][\A t \in Threads :
          (/\ pc[t] = "ready"
           /\ op'[t].kind = "factory" /\ op'[t].name = "f"
           /\ <<pc[t], op[t], res[t]>> # <<pc'[t], op'[t], res'[t]>>
           /\ ~(contract.f.web /\ contract.f.block)) =>
             /\ pc'[t] = "ready"
             /\ UNCHANGED cache]_vars

\* The compiler has rejected an impl whose finish! pathway, declared with a
\* block, opts into web{}: the pathway has no declaration and no schema.
C7_Witness ==
    /\ contract.f.web /\ contract.f.block
    /\ contract.f.arg_type = "T2"
    /\ build = "rejected"
    /\ ~Expansion(contract, "f").compiles

\* Thread t's step is a call of a factory.
FactoryStep(t) ==
    /\ <<pc[t], op[t], res[t]>> # <<pc'[t], op'[t], res'[t]>>
    /\ pc[t] = "ready"
    /\ op'[t].kind = "factory"

\* C9: a call of a factory changes no registry list and nothing another
\* thread holds, and changes the cache at most by inserting the entry of a
\* type that had none; and any two results of the same factory are equal,
\* whenever and by whichever thread they were obtained.
C9_FactoryFrame ==
    /\ [](\A t, u \in Threads :
            (pc[t] = "ready" /\ pc[u] = "ready"
             /\ op[t].kind = "factory" /\ op[u].kind = "factory"
             /\ op[t].name = op[u].name) => res[t] = res[u])
    /\ [][\A t \in Threads :
            FactoryStep(t) =>
               /\ UNCHANGED <<registry, aborted>>
               /\ \A u \in Threads \ {t} :
                     <<pc[u], op[u], res[u]>> = <<pc'[u], op'[u], res'[u]>>
               /\ \/ SCHEMA_MAP' = SCHEMA_MAP
                  \/ \E T \in TypeIds \ DOMAIN SCHEMA_MAP :
                        /\ DOMAIN SCHEMA_MAP' = DOMAIN SCHEMA_MAP \cup {T}
                        /\ \A U \in DOMAIN SCHEMA_MAP : SCHEMA_MAP'[U] = SCHEMA_MAP[U]]_vars

\* Two threads hold the result of the factory of the finish! pathway f,
\* obtained after the cache was filled with the entries of both types.
C9_Witness ==
    \E t, u \in Threads :
        /\ t # u
        /\ FactoryReturned(t, "f") /\ FactoryReturned(u, "f")
        /\ IsSome(res[t].val) /\ res[t] = res[u]
        /\ DOMAIN SCHEMA_MAP = TypeIds

\* Thread t's last call was the call of a method whose body is the stub.
CalledStub(t) ==
    /\ op[t].kind = "body"
    /\ Expansion(contract, op[t].name).body = Unimplemented

\* Thread t's last call ended in a panic: the thread has ended, or its
\* caller holds the caught panic.
Panicked(t) == pc[t] = "panicked" \/ res[t].kind = "panic"

\* C8 as stated: calling the body of a null-form declaration returns no
\* value and puts the whole process into a terminal state at once (nothing
\* changes afterwards), and no call of the body of a declaration whose
\* factory returns Some(..) does so.
C8_ProcessTerminates ==
    /\ [](\A t \in Threads :
            /\ CalledStub(t) => (res[t] = NoRes /\ aborted)
            /\ Panicked(t) =>
                  (CalledStub(t) /\ Expansion(contract, op[t].name).factory = None))
    /\ [][aborted => UNCHANGED vars]_vars

\* C8 as amended: calling the body of a null-form declaration never yields
\* a value of the body: the call panics.  The call itself changes neither
\* the registry nor the cache nor another thread (no recovery, no retry);
\* a thread the panic has ended never runs again; once the panic has
\* terminated the process nothing changes any more; and no call of the body
\* of a declaration whose factory returns Some(..) panics.
C8_StubYieldsNoValue ==
    /\ [](\A t \in Threads :
            /\ CalledStub(t) => (Panicked(t) /\ res[t].kind # "body")
            /\ Panicked(t) =>
                  (CalledStub(t) /\ Expansion(contract, op[t].name).factory = None))
    /\ [][/\ \A t \in Threads :
               /\ pc[t] = "panicked" =>
                     <<pc[t], op[t], res[t]>> = <<pc'[t], op'[t], res'[t]>>
               /\ (~Panicked(t) /\ Panicked(t)') =>
                     /\ UNCHANGED <<registry, cache>>
                     /\ \A u \in Threads \ {t} :
                           <<pc[u], op[u], res[u]>> = <<pc'[u], op'[u], res'[u]>>
          /\ aborted => UNCHANGED vars]_vars

\* One thread has ended in the panic of a stub, another has caught the panic
\* of a stub and has its thread back, and the process lives on.
C8_Witness ==
    \E t, u \in Threads :
        /\ t # u
        /\ pc[t] = "panicked"
        /\ pc[u] = "ready" /\ res[u].kind = "panic"
        /\ Running

====
